---- MODULE Spec2Model ----
(***************************************************************************)
(* A model of src/server.js: the Cloudflare worker that answers Discord    *)
(* interaction webhooks.  A request is routed (router.get / router.post /  *)
(* router.all), a POST / is verified (verifyDiscordRequest), parsed and    *)
(* dispatched on interaction.type.                                         *)
(*                                                                         *)
(* Strings (JavaScript strings, and the texts of request and response      *)
(* bodies) are sequences of atoms.  An atom is one character ("a", "{",    *)
(* a double quote) or a run of characters that no operation of the program *)
(* looks inside ("type", "https://picsum.photos/200/300").                 *)
(***************************************************************************)
EXTENDS Integers, Sequences, FiniteSets, TLC

----------------------------------------------------------------------------
(* JavaScript values.  Every value is a record of the same four fields so  *)
(* that any two values can be compared: k is the kind, n the number (or    *)
(* 0/1 of a boolean), s the string, m the members of an object (key and    *)
(* value, in insertion order) or the elements of an array.                 *)

Undefined == [k |-> "undefined", n |-> 0, s |-> <<>>, m |-> <<>>]

JNull == [k |-> "null", n |-> 0, s |-> <<>>, m |-> <<>>]

JBool(b) == [k |-> "boolean", n |-> IF b THEN 1 ELSE 0, s |-> <<>>, m |-> <<>>]

JNum(x) == [k |-> "number", n |-> x, s |-> <<>>, m |-> <<>>]

JStr(str) == [k |-> "string", n |-> 0, s |-> str, m |-> <<>>]

JObj(members) == [k |-> "object", n |-> 0, s |-> <<>>, m |-> members]

JArr(elements) ==
    [k |-> "array", n |-> 0, s |-> <<>>,
     m |-> [i \in DOMAIN elements |-> [key |-> <<>>, val |-> elements[i]]]]

\* one member of an object literal: key: value
P(key, value) == [key |-> <<key>>, val |-> value]

\* a string literal that the program never looks inside
Lit(chunk) == JStr(<<chunk>>)

\* JavaScript truthiness: !v is ~Truthy(v)
Truthy(v) ==
    CASE v.k = "undefined" -> FALSE
      [] v.k = "null"      -> FALSE
      [] v.k = "boolean"   -> v.n = 1
      [] v.k = "number"    -> v.n # 0
      [] v.k = "string"    -> v.s # <<>>
      [] OTHER             -> TRUE

\* v.key throws a TypeError exactly when v is null or undefined
CanRead(v) == v.k \notin {"undefined", "null"}

\* v.key, for a v that can be read: the member of an object, undefined otherwise
Get(v, key) ==
    IF v.k = "object" /\ \E i \in DOMAIN v.m : v.m[i].key = <<key>>
    THEN v.m[CHOOSE i \in DOMAIN v.m : v.m[i].key = <<key>>].val
    ELSE Undefined

----------------------------------------------------------------------------
(* String.prototype.toLowerCase over the letters the model uses.           *)

LowerOf(c) ==
    CASE c = "A" -> "a" [] c = "W" -> "w" [] c = "I" -> "i" [] c = "N" -> "n"
      [] c = "V" -> "v" [] c = "T" -> "t" [] c = "E" -> "e" [] c = "R" -> "r"
      [] c = "F" -> "f" [] OTHER -> c

toLowerCase(str) == [i \in DOMAIN str |-> LowerOf(str[i])]

----------------------------------------------------------------------------
(* JSON.stringify.                                                         *)

Digits == <<"0", "1", "2", "3", "4", "5", "6", "7", "8", "9">>

RECURSIVE NumText(_)
NumText(x) ==
    IF x < 0 THEN <<"-">> \o NumText(0 - x)
    ELSE IF x < 10 THEN <<Digits[x + 1]>>
    ELSE NumText(x \div 10) \o <<Digits[(x % 10) + 1]>>

RECURSIVE Escape(_)
Escape(str) ==
    IF str = <<>> THEN <<>>
    ELSE (IF Head(str) \in {"\"", "\\"} THEN <<"\\", Head(str)>> ELSE <<Head(str)>>)
         \o Escape(Tail(str))

Quote(str) == <<"\"">> \o Escape(str) \o <<"\"">>

RECURSIVE Join(_)
Join(parts) ==
    IF parts = <<>> THEN <<>>
    ELSE IF Len(parts) = 1 THEN parts[1]
    ELSE parts[1] \o <<",">> \o Join(Tail(parts))

\* the text of a value that is not undefined
RECURSIVE Serialize(_)
Serialize(v) ==
    CASE v.k = "null"    -> <<"null">>
      [] v.k = "boolean" -> IF v.n = 1 THEN <<"true">> ELSE <<"false">>
      [] v.k = "number"  -> NumText(v.n)
      [] v.k = "string"  -> Quote(v.s)
      [] v.k = "array"   ->
            <<"[">> \o
            Join([i \in DOMAIN v.m |->
                    IF v.m[i].val.k = "undefined" THEN <<"null">>
                    ELSE Serialize(v.m[i].val)])
            \o <<"]">>
      [] v.k = "object"  ->
            LET kept == SelectSeq(v.m, LAMBDA e : e.val.k # "undefined")
            IN  <<"{">> \o
                Join([i \in DOMAIN kept |->
                        Quote(kept[i].key) \o <<":">> \o Serialize(kept[i].val)])
                \o <<"}">>

\* JSON.stringify(v): a string, or undefined for undefined
JSON_stringify(v) == IF v.k = "undefined" THEN Undefined ELSE JStr(Serialize(v))

----------------------------------------------------------------------------
(* JSON.parse: a recursive-descent reading of the text.  A step returns    *)
(* ok, the value read and the index after it; ok = FALSE is a SyntaxError. *)

Fail == [ok |-> FALSE, val |-> Undefined, i |-> 0]

Read(v, next) == [ok |-> TRUE, val |-> v, i |-> next]

IsDigit(c) == \E d \in DOMAIN Digits : Digits[d] = c

DigitVal(c) == (CHOOSE d \in DOMAIN Digits : Digits[d] = c) - 1

RECURSIVE SkipWs(_, _)
SkipWs(s, i) == IF i <= Len(s) /\ s[i] = " " THEN SkipWs(s, i + 1) ELSE i

\* the characters of a string literal, from the one after its opening quote
RECURSIVE ScanString(_, _, _)
ScanString(s, j, acc) ==
    IF j > Len(s) THEN Fail
    ELSE IF s[j] = "\"" THEN Read(JStr(acc), j + 1)
    ELSE IF s[j] = "\\"
         THEN IF j + 1 <= Len(s) /\ s[j + 1] \in {"\"", "\\"}
              THEN ScanString(s, j + 2, Append(acc, s[j + 1]))
              ELSE Fail
    ELSE ScanString(s, j + 1, Append(acc, s[j]))

\* the digits of a number, acc the value of those read so far
RECURSIVE ScanDigits(_, _, _)
ScanDigits(s, j, acc) ==
    IF j <= Len(s) /\ IsDigit(s[j])
    THEN ScanDigits(s, j + 1, acc * 10 + DigitVal(s[j]))
    ELSE Read(JNum(acc), j)

\* an unsigned integer at j: no leading zero
ScanNumber(s, j) ==
    IF j > Len(s) \/ ~IsDigit(s[j]) THEN Fail
    ELSE IF s[j] = "0" /\ j + 1 <= Len(s) /\ IsDigit(s[j + 1]) THEN Fail
    ELSE ScanDigits(s, j, 0)

\* obj[key] = val: a key already there keeps its place and takes the new value
Put(members, key, val) ==
    IF \E i \in DOMAIN members : members[i].key = key
    THEN [i \in DOMAIN members |->
            IF members[i].key = key THEN [key |-> key, val |-> val] ELSE members[i]]
    ELSE Append(members, [key |-> key, val |-> val])

RECURSIVE ParseValue(_, _), ParseMembers(_, _, _), ParseElements(_, _, _)
ParseValue(s, i0) ==
    LET i == SkipWs(s, i0) IN
    IF i > Len(s) THEN Fail
    ELSE CASE s[i] = "null"  -> Read(JNull, i + 1)
           [] s[i] = "true"  -> Read(JBool(TRUE), i + 1)
           [] s[i] = "false" -> Read(JBool(FALSE), i + 1)
           [] s[i] = "\""    -> ScanString(s, i + 1, <<>>)
           [] s[i] = "-"     ->
                LET r == ScanNumber(s, i + 1)
                IN  IF r.ok THEN Read(JNum(0 - r.val.n), r.i) ELSE Fail
           [] IsDigit(s[i])  -> ScanNumber(s, i)
           [] s[i] = "{"     ->
                LET j == SkipWs(s, i + 1)
                IN  IF j <= Len(s) /\ s[j] = "}" THEN Read(JObj(<<>>), j + 1)
                    ELSE ParseMembers(s, j, <<>>)
           [] s[i] = "["     ->
                LET j == SkipWs(s, i + 1)
                IN  IF j <= Len(s) /\ s[j] = "]" THEN Read(JArr(<<>>), j + 1)
                    ELSE ParseElements(s, j, <<>>)
           [] OTHER          -> Fail

\* "key": value, then a comma and more members, or the closing brace
ParseMembers(s, i, acc) ==
    IF i > Len(s) \/ s[i] # "\"" THEN Fail
    ELSE LET key == ScanString(s, i + 1, <<>>) IN
         IF ~key.ok THEN Fail
         ELSE LET c == SkipWs(s, key.i) IN
              IF c > Len(s) \/ s[c] # ":" THEN Fail
              ELSE LET v == ParseValue(s, c + 1) IN
                   IF ~v.ok THEN Fail
                   ELSE LET e    == SkipWs(s, v.i)
                            more == Put(acc, key.val.s, v.val)
                        IN  IF e > Len(s) THEN Fail
                            ELSE IF s[e] = "}" THEN Read(JObj(more), e + 1)
                            ELSE IF s[e] = ","
                                 THEN ParseMembers(s, SkipWs(s, e + 1), more)
                            ELSE Fail

\* value, then a comma and more elements, or the closing bracket
ParseElements(s, i, acc) ==
    LET v == ParseValue(s, i) IN
    IF ~v.ok THEN Fail
    ELSE LET e    == SkipWs(s, v.i)
             more == Append(acc, v.val)
         IN  IF e > Len(s) THEN Fail
             ELSE IF s[e] = "]" THEN Read(JArr(more), e + 1)
             ELSE IF s[e] = "," THEN ParseElements(s, e + 1, more)
             ELSE Fail

\* JSON.parse(text): ok = FALSE when it throws a SyntaxError
JSON_parse(text) ==
    LET r == ParseValue(text, 1) IN
    IF r.ok /\ SkipWs(text, r.i) = Len(text) + 1 THEN r ELSE Fail

----------------------------------------------------------------------------
(* The enumerations of discord-interactions that server.js uses.           *)

InteractionType_PING == 1

InteractionType_APPLICATION_COMMAND == 2

InteractionType_MESSAGE_COMPONENT == 3

InteractionType_MODAL_SUBMIT == 5

InteractionResponseType_PONG == 1

InteractionResponseType_CHANNEL_MESSAGE_WITH_SOURCE == 4

InteractionResponseType_MODAL == 9

MessageComponentTypes_ACTION_ROW == 1

MessageComponentTypes_BUTTON == 2

MessageComponentTypes_STRING_SELECT == 3

MessageComponentTypes_INPUT_TEXT == 4

ButtonStyleTypes_SECONDARY == 2

TextStyleTypes_SHORT == 1

InteractionResponseFlags_EPHEMERAL == 64

\* commands.js: the names of the two registered commands
AWW_COMMAND_name == <<"a", "w", "w">>

INVITE_COMMAND_name == <<"i", "n", "v", "i", "t", "e">>

\* the literal 'refine' of the component switch
REFINE == <<"r", "e", "f", "i", "n", "e">>

----------------------------------------------------------------------------
(* Response and JsonResponse.  init is the second constructor argument:    *)
(* given = FALSE when it is omitted.                                       *)

NoInit == [given |-> FALSE, hasStatus |-> FALSE, status |-> 0, contentType |-> ""]

StatusInit(code) == [given |-> TRUE, hasStatus |-> TRUE, status |-> code, contentType |-> ""]

JsonHeaders ==
    [given |-> TRUE, hasStatus |-> FALSE, status |-> 0,
     contentType |-> "application/json;charset=UTF-8"]

\* new Response(text, init): status 200 and a text/plain content type by default
Response(text, init) ==
    [status      |-> IF init.given /\ init.hasStatus THEN init.status ELSE 200,
     contentType |-> IF init.given /\ init.contentType # ""
                     THEN init.contentType ELSE "text/plain;charset=UTF-8",
     body        |-> text]

\* new JsonResponse(body, init): the default headers only when init is omitted
JsonResponse(body, init) ==
    Response(Serialize(body), IF init.given THEN init ELSE JsonHeaders)

\* the state of a handling that has not answered
NoResponse == [status |-> 0, contentType |-> "", body |-> <<>>]

----------------------------------------------------------------------------
(* The response objects of the dispatcher.                                 *)

\* a variant of PongBody: the acknowledgement with a data field added
PongBodyWithData ==
    JObj(<<P("type", JNum(InteractionResponseType_PONG)), P("data", JObj(<<>>))>>)

PongBody == JObj(<<P("type", JNum(InteractionResponseType_PONG))>>)

Embed(title) ==
    JObj(<<P("title", Lit(title)),
           P("image", JObj(<<P("url", Lit("https://picsum.photos/200/300")),
                             P("width", JNum(200)),
                             P("height", JNum(300))>>))>>)

Button(label, id) ==
    JObj(<<P("type", JNum(MessageComponentTypes_BUTTON)),
           P("style", JNum(ButtonStyleTypes_SECONDARY)),
           P("label", Lit(label)),
           P("custom_id", Lit(id))>>)

Option(label) == JObj(<<P("label", Lit(label)), P("value", Lit(label))>>)

ActionRow(components) ==
    JObj(<<P("type", JNum(MessageComponentTypes_ACTION_ROW)),
           P("components", JArr(components))>>)

AwwBody ==
    JObj(<<P("type", JNum(InteractionResponseType_CHANNEL_MESSAGE_WITH_SOURCE)),
           P("data", JObj(<<
              P("embeds", JArr(<<Embed("1"), Embed("2"), Embed("3")>>)),
              P("components", JArr(<<
                 ActionRow(<<Button("Next", "next"), Button("Prev", "prev")>>),
                 ActionRow(<<JObj(<<
                    P("type", JNum(MessageComponentTypes_STRING_SELECT)),
                    P("options", JArr(<<Option("1"), Option("2"), Option("3")>>)),
                    P("custom_id", JStr(REFINE)),
                    P("placeholder", Lit("Choose an item to refine")),
                    P("min_values", JNum(1)),
                    P("max_values", JNum(1))>>)>>)>>))>>))>>)

INVITE_URL(applicationId) ==
    <<"https://discord.com/oauth2/authorize?", "client_id=">> \o applicationId
    \o <<"&scope=applications.commands">>

InviteBody(applicationId) ==
    JObj(<<P("type", JNum(InteractionResponseType_CHANNEL_MESSAGE_WITH_SOURCE)),
           P("data", JObj(<<P("content", JStr(INVITE_URL(applicationId))),
                            P("flags", JNum(InteractionResponseFlags_EPHEMERAL))>>))>>)

ModalBody ==
    JObj(<<P("type", JNum(InteractionResponseType_MODAL)),
           P("data", JObj(<<
              P("custom_id", Lit("refine_modal")),
              P("title", Lit("Refine")),
              P("components", JArr(<<ActionRow(<<JObj(<<
                 P("type", JNum(MessageComponentTypes_INPUT_TEXT)),
                 P("custom_id", Lit("prompt")),
                 P("label", Lit("Prompt")),
                 P("style", JNum(TextStyleTypes_SHORT)),
                 P("min_length", JNum(1)),
                 P("max_length", JNum(4000))>>)>>)>>))>>))>>)

\* { type: CHANNEL_MESSAGE_WITH_SOURCE, data: { content: JSON.stringify(data) } }
EchoBody(data) ==
    JObj(<<P("type", JNum(InteractionResponseType_CHANNEL_MESSAGE_WITH_SOURCE)),
           P("data", JObj(<<P("content", JSON_stringify(data))>>))>>)

UnknownTypeBody == JObj(<<P("error", Lit("Unknown Type"))>>)

BadSignature == Response(<<"Bad request signature.">>, StatusInit(401))

NotFound == Response(<<"Not Found.">>, StatusInit(404))

Hello(applicationId) == Response(<<"U+1F44B", " ">> \o applicationId, NoInit)

\* AutoRouter's catch: an exception that leaves a handler is answered 500
ErrorResponse(name) ==
    Response(Serialize(JObj(<<P("status", JNum(500)), P("error", Lit(name))>>)),
             [given |-> TRUE, hasStatus |-> TRUE, status |-> 500,
              contentType |-> "application/json; charset=utf-8"])

----------------------------------------------------------------------------
(* Requests.  A header is what request.headers.get returns: null when the  *)
(* header is absent, a string otherwise.  The string of a signature header *)
(* also records what it decodes to: the key that signed and the message    *)
(* signed (Ed25519 as an ideal signature scheme).                          *)

DiscordKey == "discord-key"

OtherKey == "other-key"

NoKey == "no-key"

Header(v, key, msg) == [k |-> v.k, n |-> v.n, s |-> v.s, m |-> v.m, key |-> key, msg |-> msg]

Absent == Header(JNull, NoKey, <<>>)

Empty == Header(JStr(<<>>), NoKey, <<>>)

\* a signature header that is not the hex of 64 bytes
Malformed == Header(Lit("zz"), NoKey, <<>>)

\* the hex of the signature that key makes of msg
Sign(key, msg) == Header(Lit("hex"), key, msg)

Timestamp == <<"1700000000">>

OtherTimestamp == <<"1600000000">>

Timestamps == {Absent, Empty, Header(JStr(Timestamp), NoKey, <<>>)}

\* the text Discord signs: the timestamp followed by the body
Message(timestamp, body) == timestamp \o body

TextOfHeader(h) == IF h.k = "string" THEN h.s ELSE <<>>

\* the signature headers a request with this timestamp and body may carry:
\* none, empty, malformed, Discord's, another key's, Discord's of another body
\* (the body was altered after signing), Discord's under another timestamp
Signatures(timestamp, body) ==
    {Absent, Empty, Malformed,
     Sign(DiscordKey, Message(TextOfHeader(timestamp), body)),
     Sign(OtherKey, Message(TextOfHeader(timestamp), body)),
     Sign(DiscordKey, Message(TextOfHeader(timestamp), body \o <<" ">>)),
     Sign(DiscordKey, Message(OtherTimestamp, body))}

Methods == {"GET", "POST", "PUT", "DELETE", "HEAD"}

Paths == {"/", "/x"}

----------------------------------------------------------------------------
(* Request bodies.                                                         *)

Q(chunk) == <<"\"", chunk, "\"">>

Typed(type, rest) == Serialize(JObj(<<P("type", type)>> \o rest))

Command(name) ==
    Typed(JNum(InteractionType_APPLICATION_COMMAND),
          <<P("data", JObj(<<P("name", JStr(name))>>))>>)

Component(id) ==
    Typed(JNum(InteractionType_MESSAGE_COMPONENT),
          <<P("data", JObj(<<P("custom_id", JStr(id)),
                             P("values", JArr(<<Lit("2")>>))>>))>>)

AwwCasings == {<<a, b, c>> : a \in {"a", "A"}, b \in {"w", "W"}, c \in {"w", "W"}}

InviteCasings ==
    {INVITE_COMMAND_name, <<"I", "N", "V", "I", "T", "E">>,
     <<"I", "n", "v", "i", "t", "e">>, <<"i", "n", "V", "i", "t", "E">>}

OtherNames ==
    {<<>>, <<"a", "w">>, <<"a", "w", "w", "w">>, <<"a", "w", "w", " ">>,
     <<"f", "o", "o">>, <<"F", "O", "O">>, <<"i", "n", "v", "i", "t">>}

Names == AwwCasings \cup InviteCasings \cup OtherNames

CustomIds ==
    {REFINE, <<"R", "e", "f", "i", "n", "e">>, <<"R", "E", "F", "I", "N", "E">>,
     <<"r", "e", "f", "i", "n", "e", "_", "m", "o", "d", "a", "l">>,
     <<"n", "e", "x", "t">>, <<"p", "r", "e", "v">>, <<>>}

PingBodies ==
    {Typed(JNum(InteractionType_PING), <<>>),
     Typed(JNum(InteractionType_PING),
           <<P("id", Lit("7")), P("data", JObj(<<P("name", JStr(AWW_COMMAND_name))>>))>>),
     <<" ", "{", " ">> \o Q("type") \o <<" ", ":", " ", "1", " ", "}", " ">>,
     \* a repeated key: the last one counts
     <<"{">> \o Q("type") \o <<":", "2", ",">> \o Q("type") \o <<":", "1", "}">>}

CommandBodies ==
    {Command(name) : name \in Names} \cup
    {Typed(JNum(InteractionType_APPLICATION_COMMAND), <<>>),
     Typed(JNum(InteractionType_APPLICATION_COMMAND), <<P("data", JNull)>>),
     Typed(JNum(InteractionType_APPLICATION_COMMAND), <<P("data", JObj(<<>>))>>),
     Typed(JNum(InteractionType_APPLICATION_COMMAND),
           <<P("data", JObj(<<P("name", JNum(7))>>))>>),
     Typed(JNum(InteractionType_APPLICATION_COMMAND),
           <<P("data", JObj(<<P("name", JNull)>>))>>),
     <<"{">> \o Q("type") \o <<":", "1", ",">> \o Q("data") \o <<":", "{">>
        \o Q("name") \o <<":", "\"", "A", "w", "w", "\"", "}", ",">>
        \o Q("type") \o <<":", " ", "2", "}">>}

ComponentBodies ==
    {Component(id) : id \in CustomIds} \cup
    {Typed(JNum(InteractionType_MESSAGE_COMPONENT), <<>>),
     Typed(JNum(InteractionType_MESSAGE_COMPONENT), <<P("data", JNull)>>),
     Typed(JNum(InteractionType_MESSAGE_COMPONENT), <<P("data", JObj(<<>>))>>),
     Typed(JNum(InteractionType_MESSAGE_COMPONENT), <<P("data", JNum(7))>>),
     Typed(JNum(InteractionType_MESSAGE_COMPONENT),
           <<P("data", JObj(<<P("custom_id", JNum(7))>>))>>),
     \* spaces, and custom_id twice: the last one counts
     <<"{", " ">> \o Q("type") \o <<":", "3", ",", " ">> \o Q("data") \o <<":", " ", "{">>
        \o Q("custom_id") \o <<":", "\"", "n", "e", "x", "t", "\"", ",", " ">>
        \o Q("custom_id") \o <<":", "\"">> \o REFINE \o <<"\"", " ", "}", "}">>,
     <<"{", " ">> \o Q("type") \o <<":", "3", ",", " ">> \o Q("data") \o <<":", " ", "{">>
        \o Q("custom_id") \o <<":", "\"">> \o REFINE \o <<"\"", ",", " ">>
        \o Q("custom_id") \o <<":", " ", "\"", "n", "e", "x", "t", "\"", " ", "}", "}">>}

ModalBodies ==
    {Typed(JNum(InteractionType_MODAL_SUBMIT),
           <<P("data", JObj(<<P("custom_id", Lit("refine_modal")),
                              P("components", JArr(<<JObj(<<
                                  P("custom_id", Lit("prompt")),
                                  P("value", JStr(<<"a", " ", "\"", "b", "\"">>))>>)>>))>>))>>),
     Typed(JNum(InteractionType_MODAL_SUBMIT), <<>>),
     Typed(JNum(InteractionType_MODAL_SUBMIT), <<P("data", JNull)>>)}

\* objects and other truthy values whose type is none of the four
OtherBodies ==
    {Typed(JNum(4), <<P("data", JObj(<<P("name", JStr(AWW_COMMAND_name))>>))>>),
     Typed(JNum(0), <<>>), Typed(JNum(12), <<>>), Typed(JNum(-1), <<>>),
     Typed(Lit("1"), <<>>), Typed(Lit("2"), <<>>), Typed(JNull, <<>>),
     Typed(JBool(TRUE), <<>>), Typed(JArr(<<JNum(1)>>), <<>>),
     Serialize(JObj(<<>>)),
     Serialize(JObj(<<P("data", JObj(<<P("name", JStr(AWW_COMMAND_name))>>))>>)),
     Serialize(JArr(<<>>)), Serialize(JArr(<<JNum(1)>>)),
     Serialize(JNum(1)), Serialize(JNum(5)), Serialize(JBool(TRUE)),
     Serialize(Lit("x"))}

\* null, false, 0 and the empty string
FalsyBodies ==
    {Serialize(JNull), Serialize(JBool(FALSE)), Serialize(JNum(0)), Serialize(JStr(<<>>))}

\* texts that are not JSON
BadBodies ==
    {<<>>, <<" ">>, <<"{">>, <<"{">> \o Q("type") \o <<":", "1">>,
     <<"{">> \o Q("type") \o <<":", "1", "}", "}">>,
     <<"{">> \o Q("type") \o <<":", "1", ",", "}">>,
     <<"{", "type", ":", "1", "}">>, <<"0", "1">>, <<"undefined">>}

Bodies ==
    PingBodies \cup CommandBodies \cup ComponentBodies \cup ModalBodies
    \cup OtherBodies \cup FalsyBodies \cup BadBodies

RequestsOf(methods, paths, bodies) ==
    UNION {{[method |-> method, path |-> path, signature |-> signature,
             timestamp |-> timestamp, body |-> body] :
                method \in methods, path \in paths,
                signature \in Signatures(timestamp, body)} :
           timestamp \in Timestamps, body \in bodies}

Requests == RequestsOf(Methods, Paths, Bodies)

\* a request that Discord signed with the configured key
Signed(method, path, body) ==
    [method |-> method, path |-> path,
     signature |-> Sign(DiscordKey, Message(Timestamp, body)),
     timestamp |-> Header(JStr(Timestamp), NoKey, <<>>), body |-> body]

\* the requests of the concurrent specification: fewer, several in flight
ConcurrentRequests ==
    {[Signed("GET", "/", <<>>) EXCEPT !.signature = Absent, !.timestamp = Absent],
     Signed("PUT", "/", Typed(JNum(InteractionType_PING), <<>>)),
     Signed("POST", "/", Typed(JNum(InteractionType_PING), <<>>)),
     Signed("POST", "/", Command(<<"A", "w", "W">>)),
     Signed("POST", "/", Component(REFINE)),
     Signed("POST", "/", Typed(JNum(InteractionType_MODAL_SUBMIT), <<>>)),
     Signed("POST", "/", Typed(JNum(12), <<>>)),
     Signed("POST", "/", Serialize(JNull)),
     Signed("POST", "/", <<"{">>),
     [Signed("POST", "/", Typed(JNum(InteractionType_PING), <<>>))
        EXCEPT !.signature = Absent],
     [Signed("POST", "/", Typed(JNum(InteractionType_PING), <<>>))
        EXCEPT !.signature = Sign(OtherKey, @.msg)]}

----------------------------------------------------------------------------
(* The worker.  env is the configuration the runtime passes to fetch.  A   *)
(* slot is one invocation of router.fetch; the other variables are the     *)
(* locals of the invocation in each slot.                                  *)

NumSlots == 2

Slots == 1 .. NumSlots

VARIABLES
    env,             \* DISCORD_APPLICATION_ID and DISCORD_PUBLIC_KEY
    pc,              \* idle, text, parse, handler, done
    request,         \* the request being handled
    signature,       \* verifyDiscordRequest: signature
    timestamp,       \* verifyDiscordRequest: timestamp
    body,            \* verifyDiscordRequest: body
    isValidRequest,  \* verifyDiscordRequest: unset, truthy, falsy
    verifyKeyCalls,  \* how often verifyKey was called
    parseCalls,      \* how often JSON.parse was called
    isValid,         \* router.post: isValid (unset, true, false)
    interaction,     \* router.post: interaction
    evaluated,       \* the interaction.type tests evaluated, in order
    console,         \* the lines written with console.error
    thrown,          \* the exception that left the handler, or none
    response         \* the response returned

locals ==
    <<signature, timestamp, body, isValidRequest, verifyKeyCalls, parseCalls,
      isValid, interaction, evaluated, console, thrown>>

vars ==
    <<env, pc, request, signature, timestamp, body, isValidRequest, verifyKeyCalls,
      parseCalls, isValid, interaction, evaluated, console, thrown, response>>

Environment ==
    [DISCORD_APPLICATION_ID |-> <<"1", "2", "3">>, DISCORD_PUBLIC_KEY |-> DiscordKey]

NoRequest ==
    [method |-> "", path |-> "", signature |-> Absent, timestamp |-> Absent, body |-> <<>>]

Init ==
    /\ env = Environment
    /\ pc = [s \in Slots |-> "idle"]
    /\ request = [s \in Slots |-> NoRequest]
    /\ signature = [s \in Slots |-> Absent]
    /\ timestamp = [s \in Slots |-> Absent]
    /\ body = [s \in Slots |-> <<>>]
    /\ isValidRequest = [s \in Slots |-> "unset"]
    /\ verifyKeyCalls = [s \in Slots |-> 0]
    /\ parseCalls = [s \in Slots |-> 0]
    /\ isValid = [s \in Slots |-> "unset"]
    /\ interaction = [s \in Slots |-> Undefined]
    /\ evaluated = [s \in Slots |-> <<>>]
    /\ console = [s \in Slots |-> <<>>]
    /\ thrown = [s \in Slots |-> "none"]
    /\ response = [s \in Slots |-> NoResponse]

----------------------------------------------------------------------------
(* Routing: router.get('/'), router.post('/'), router.all('*').            *)

\* a variant of Route: router.get without the path, so GET of any path greets
RouteAnyGet(method, path) ==
    IF method = "GET" THEN "hello"
    ELSE IF method = "POST" /\ path = "/" THEN "interactions"
    ELSE "missing"

Route(method, path) ==
    IF method = "GET" /\ path = "/" THEN "hello"
    ELSE IF method = "POST" /\ path = "/" THEN "interactions"
    ELSE "missing"

\* router.get('/'): the greeting
FetchHello(s, r) ==
    /\ Route(r.method, r.path) = "hello"
    /\ request' = [request EXCEPT ![s] = r]
    /\ response' = [response EXCEPT ![s] = Hello(env.DISCORD_APPLICATION_ID)]
    /\ pc' = [pc EXCEPT ![s] = "done"]
    /\ UNCHANGED <<env, locals>>

\* router.all('*'): every other method and path
FetchMissing(s, r) ==
    /\ Route(r.method, r.path) = "missing"
    /\ request' = [request EXCEPT ![s] = r]
    /\ response' = [response EXCEPT ![s] = NotFound]
    /\ pc' = [pc EXCEPT ![s] = "done"]
    /\ UNCHANGED <<env, locals>>

\* router.post('/') calls verifyDiscordRequest, which reads the two headers
\* and waits for request.text()
FetchInteraction(s, r) ==
    /\ Route(r.method, r.path) = "interactions"
    /\ request' = [request EXCEPT ![s] = r]
    /\ signature' = [signature EXCEPT ![s] = r.signature]
    /\ timestamp' = [timestamp EXCEPT ![s] = r.timestamp]
    /\ pc' = [pc EXCEPT ![s] = "text"]
    /\ UNCHANGED <<env, body, isValidRequest, verifyKeyCalls, parseCalls, isValid,
                   interaction, evaluated, console, thrown, response>>

----------------------------------------------------------------------------
(* verifyDiscordRequest.                                                   *)

\* verifyKey of discord-interactions: FALSE for a malformed signature too
verifyKey(text, sig, ts, publicKey) ==
    /\ sig.s = <<"hex">>
    /\ sig.key = publicKey
    /\ sig.msg = Message(ts.s, text)

\* a variant of ValidRequest: signature && timestamp, the key never checked
ValidRequestUnchecked(sig, ts, text, publicKey) ==
    [truthy |-> Truthy(sig) /\ Truthy(ts), calls |-> 0]

\* a variant of ValidRequest: verifyKey called first, the headers tested after
ValidRequestEager(sig, ts, text, publicKey) ==
    [truthy |-> Truthy(sig) /\ Truthy(ts) /\ verifyKey(text, sig, ts, publicKey),
     calls  |-> 1]

\* signature && timestamp && verifyKey(...): its truthiness, and the calls
\* of verifyKey that evaluating it makes
ValidRequest(sig, ts, text, publicKey) ==
    IF ~Truthy(sig) THEN [truthy |-> FALSE, calls |-> 0]
    ELSE IF ~Truthy(ts) THEN [truthy |-> FALSE, calls |-> 0]
    ELSE [truthy |-> verifyKey(text, sig, ts, publicKey), calls |-> 1]

\* a variant of RequestText: the text kept in one place for all invocations,
\* so that an invocation reads that of the first one in flight
RequestTextShared(s) == request[CHOOSE t \in Slots : pc[t] # "idle" /\ \A u \in Slots : pc[u] # "idle" => t <= u].body

\* what await request.text() gives the invocation in slot s
RequestText(s) == request[s].body

\* a variant of AfterCheck: the body is parsed whatever the check said
AfterCheckParseAnyway(truthy) == "parse"

\* where verifyDiscordRequest goes on after the check
AfterCheck(truthy) == IF truthy THEN "parse" ELSE "handler"

\* request.text() resolves; isValidRequest is computed; return {isValid: false}
\* when it is falsy
Verify(s) ==
    /\ pc[s] = "text"
    /\ LET text  == RequestText(s)
           check == ValidRequest(signature[s], timestamp[s], text, env.DISCORD_PUBLIC_KEY)
       IN  /\ body' = [body EXCEPT ![s] = text]
           /\ isValidRequest' =
                [isValidRequest EXCEPT ![s] = IF check.truthy THEN "truthy" ELSE "falsy"]
           /\ verifyKeyCalls' = [verifyKeyCalls EXCEPT ![s] = @ + check.calls]
           /\ isValid' = [isValid EXCEPT ![s] = IF check.truthy THEN @ ELSE "false"]
           /\ pc' = [pc EXCEPT ![s] = AfterCheck(check.truthy)]
    /\ UNCHANGED <<env, request, signature, timestamp, parseCalls, interaction,
                   evaluated, console, thrown, response>>

\* return {interaction: JSON.parse(body), isValid: true}; a SyntaxError leaves
\* verifyDiscordRequest and the handler
Parse(s) ==
    /\ pc[s] = "parse"
    /\ parseCalls' = [parseCalls EXCEPT ![s] = @ + 1]
    /\ LET r == JSON_parse(body[s])
       IN  IF r.ok
           THEN /\ interaction' = [interaction EXCEPT ![s] = r.val]
                /\ isValid' = [isValid EXCEPT ![s] = "true"]
                /\ pc' = [pc EXCEPT ![s] = "handler"]
                /\ UNCHANGED <<thrown, response>>
           ELSE /\ thrown' = [thrown EXCEPT ![s] = "SyntaxError"]
                /\ response' = [response EXCEPT ![s] = ErrorResponse("SyntaxError")]
                /\ pc' = [pc EXCEPT ![s] = "done"]
                /\ UNCHANGED <<interaction, isValid>>
    /\ UNCHANGED <<env, request, signature, timestamp, body, isValidRequest,
                   verifyKeyCalls, evaluated, console>>

----------------------------------------------------------------------------
(* router.post('/') after verifyDiscordRequest has returned.               *)

Return(resp) == [thrown |-> "none", response |-> resp]

\* an exception leaves the handler, and AutoRouter answers it
Throw(name) == [thrown |-> name, response |-> ErrorResponse(name)]

\* !isValid || !interaction
Rejected(valid, act) == valid # "true" \/ ~Truthy(act)

\* interaction.type === type
TypeIs(act, type) == Get(act, "type") = JNum(type)

\* a variant of CommandKey: the name compared as it came
CommandKeyAsIs(name) == name

\* the switch expression interaction.data.name.toLowerCase()
CommandKey(name) == toLowerCase(name)

\* the APPLICATION_COMMAND branch
CommandResult(act, e) ==
    LET data == Get(act, "data") IN
    IF ~CanRead(data) THEN Throw("TypeError")
    ELSE LET name == Get(data, "name") IN
         IF name.k # "string" THEN Throw("TypeError")
         ELSE LET key == CommandKey(name.s) IN
              IF key = toLowerCase(AWW_COMMAND_name)
              THEN Return(JsonResponse(AwwBody, NoInit))
              ELSE IF key = toLowerCase(INVITE_COMMAND_name)
              THEN Return(JsonResponse(InviteBody(e.DISCORD_APPLICATION_ID), NoInit))
              ELSE Return(JsonResponse(UnknownTypeBody, StatusInit(400)))

\* the MESSAGE_COMPONENT branch
ComponentResult(act) ==
    LET data == Get(act, "data") IN
    IF ~CanRead(data) THEN Throw("TypeError")
    ELSE IF Get(data, "custom_id") = JStr(REFINE)
         THEN Return(JsonResponse(ModalBody, NoInit))
         ELSE Return(JsonResponse(EchoBody(data), NoInit))

\* the MODAL_SUBMIT branch
ModalSubmitResult(act) == Return(JsonResponse(EchoBody(Get(act, "data")), NoInit))

Finish(s, result, tests) ==
    /\ thrown' = [thrown EXCEPT ![s] = result.thrown]
    /\ response' = [response EXCEPT ![s] = result.response]
    /\ evaluated' = [evaluated EXCEPT ![s] = tests]
    /\ pc' = [pc EXCEPT ![s] = "done"]
    /\ UNCHANGED <<env, request, signature, timestamp, body, isValidRequest,
                   verifyKeyCalls, parseCalls, isValid, interaction>>

\* if (!isValid || !interaction) return 401
Reject(s) ==
    /\ pc[s] = "handler"
    /\ Rejected(isValid[s], interaction[s])
    /\ Finish(s, Return(BadSignature), <<>>)
    /\ UNCHANGED console

Ping(s) ==
    /\ pc[s] = "handler"
    /\ ~Rejected(isValid[s], interaction[s])
    /\ TypeIs(interaction[s], InteractionType_PING)
    /\ Finish(s, Return(JsonResponse(PongBody, NoInit)), <<"PING">>)
    /\ UNCHANGED console

ApplicationCommand(s) ==
    /\ pc[s] = "handler"
    /\ ~Rejected(isValid[s], interaction[s])
    /\ ~TypeIs(interaction[s], InteractionType_PING)
    /\ TypeIs(interaction[s], InteractionType_APPLICATION_COMMAND)
    /\ Finish(s, CommandResult(interaction[s], env), <<"PING", "APPLICATION_COMMAND">>)
    /\ UNCHANGED console

MessageComponent(s) ==
    /\ pc[s] = "handler"
    /\ ~Rejected(isValid[s], interaction[s])
    /\ ~TypeIs(interaction[s], InteractionType_PING)
    /\ ~TypeIs(interaction[s], InteractionType_APPLICATION_COMMAND)
    /\ TypeIs(interaction[s], InteractionType_MESSAGE_COMPONENT)
    /\ Finish(s, ComponentResult(interaction[s]),
              <<"PING", "APPLICATION_COMMAND", "MESSAGE_COMPONENT">>)
    /\ UNCHANGED console

ModalSubmit(s) ==
    /\ pc[s] = "handler"
    /\ ~Rejected(isValid[s], interaction[s])
    /\ ~TypeIs(interaction[s], InteractionType_PING)
    /\ ~TypeIs(interaction[s], InteractionType_APPLICATION_COMMAND)
    /\ ~TypeIs(interaction[s], InteractionType_MESSAGE_COMPONENT)
    /\ TypeIs(interaction[s], InteractionType_MODAL_SUBMIT)
    /\ Finish(s, ModalSubmitResult(interaction[s]),
              <<"PING", "APPLICATION_COMMAND", "MESSAGE_COMPONENT", "MODAL_SUBMIT">>)
    /\ UNCHANGED console

\* console.error('Unknown Type'), then 400
UnknownType(s) ==
    /\ pc[s] = "handler"
    /\ ~Rejected(isValid[s], interaction[s])
    /\ ~TypeIs(interaction[s], InteractionType_PING)
    /\ ~TypeIs(interaction[s], InteractionType_APPLICATION_COMMAND)
    /\ ~TypeIs(interaction[s], InteractionType_MESSAGE_COMPONENT)
    /\ ~TypeIs(interaction[s], InteractionType_MODAL_SUBMIT)
    /\ console' = [console EXCEPT ![s] = Append(@, "Unknown Type")]
    /\ Finish(s, Return(JsonResponse(UnknownTypeBody, StatusInit(400))),
              <<"PING", "APPLICATION_COMMAND", "MESSAGE_COMPONENT", "MODAL_SUBMIT">>)

\* the response is delivered and the invocation ends; the slot takes another
Recycle(s) ==
    /\ pc[s] = "done"
    /\ pc' = [pc EXCEPT ![s] = "idle"]
    /\ request' = [request EXCEPT ![s] = NoRequest]
    /\ signature' = [signature EXCEPT ![s] = Absent]
    /\ timestamp' = [timestamp EXCEPT ![s] = Absent]
    /\ body' = [body EXCEPT ![s] = <<>>]
    /\ isValidRequest' = [isValidRequest EXCEPT ![s] = "unset"]
    /\ verifyKeyCalls' = [verifyKeyCalls EXCEPT ![s] = 0]
    /\ parseCalls' = [parseCalls EXCEPT ![s] = 0]
    /\ isValid' = [isValid EXCEPT ![s] = "unset"]
    /\ interaction' = [interaction EXCEPT ![s] = Undefined]
    /\ evaluated' = [evaluated EXCEPT ![s] = <<>>]
    /\ console' = [console EXCEPT ![s] = <<>>]
    /\ thrown' = [thrown EXCEPT ![s] = "none"]
    /\ response' = [response EXCEPT ![s] = NoResponse]
    /\ UNCHANGED env

\* the steps of an invocation after fetch
Step(s) ==
    \/ Verify(s)
    \/ Parse(s)
    \/ Reject(s)
    \/ Ping(s)
    \/ ApplicationCommand(s)
    \/ MessageComponent(s)
    \/ ModalSubmit(s)
    \/ UnknownType(s)
    \/ Recycle(s)

AllIdle == \A s \in Slots : pc[s] = "idle"

\* router.fetch on a request of the set rs, in a slot that is free
Fetch(s, rs) ==
    /\ pc[s] = "idle"
    /\ \E r \in rs :
          \/ FetchHello(s, r)
          \/ FetchMissing(s, r)
          \/ FetchInteraction(s, r)

\* one request at a time, any request
Next ==
    \E s \in Slots :
        \/ AllIdle /\ Fetch(s, Requests)
        \/ Step(s)

Spec == Init /\ [][Next]_vars

\* several requests in flight, their steps interleaved
ConcurrentNext ==
    \E s \in Slots :
        \/ Fetch(s, ConcurrentRequests)
        \/ Step(s)

ConcurrentSpec == Init /\ [][ConcurrentNext]_vars

----------------------------------------------------------------------------
(* What the properties below speak of.                                     *)

Done(s) == pc[s] = "done"

\* slot s is handling a POST /
Post(s) == pc[s] # "idle" /\ request[s].method = "POST" /\ request[s].path = "/"

\* the request carries both headers, and its signature is Discord's of its
\* own timestamp and body
Authentic(r) ==
    /\ r.signature.k = "string" /\ r.signature.s # <<>>
    /\ r.timestamp.k = "string" /\ r.timestamp.s # <<>>
    /\ r.signature.s = <<"hex">>
    /\ r.signature.key = DiscordKey
    /\ r.signature.msg = r.timestamp.s \o r.body

\* why the verification of a request fails
Cause(r) ==
    IF r.signature.k = "null" THEN "no signature header"
    ELSE IF r.timestamp.k = "null" THEN "no timestamp header"
    ELSE IF r.signature.s = <<>> THEN "empty signature header"
    ELSE IF r.timestamp.s = <<>> THEN "empty timestamp header"
    ELSE IF r.signature.s # <<"hex">> THEN "malformed signature"
    ELSE IF r.signature.key # DiscordKey THEN "wrong key"
    ELSE IF r.signature.msg # r.timestamp.s \o r.body THEN "altered after signing"
    ELSE "none"

\* the request in slot s passed verification and its body was parsed
Verified(s) == Post(s) /\ isValid[s] = "true"

\* a dispatch branch was entered
Dispatched(s) == evaluated[s] # <<>>

PongText == <<"{", "\"", "type", "\"", ":", "1", "}">>

UnknownTypeText == <<"{", "\"", "error", "\"", ":", "\"", "Unknown Type", "\"", "}">>

IsUnauthorized(resp) ==
    /\ resp.status = 401
    /\ resp.contentType = "text/plain;charset=UTF-8"
    /\ resp.body = <<"Bad request signature.">>

IsUnknownType(resp) == resp.status = 400 /\ resp.body = UnknownTypeText

\* text holds part somewhere
Contains(text, part) ==
    \E i \in 0 .. (Len(text) - Len(part)) : SubSeq(text, i + 1, i + Len(part)) = part

----------------------------------------------------------------------------
(* C1.  A request body is parsed, and an interaction dispatched, only      *)
(* after the verification of that same request has succeeded: JSON.parse   *)
(* has run only in an invocation whose isValidRequest is truthy, and a     *)
(* dispatch branch has been entered only in one where verifyDiscordRequest *)
(* returned isValid = true and the interaction parsed from the body that   *)
(* verifyKey checked against the request's own signature and timestamp.    *)
C1_VerifyBeforeParse ==
    \A s \in Slots :
        /\ parseCalls[s] > 0 =>
              /\ isValidRequest[s] = "truthy"
              /\ verifyKeyCalls[s] = 1
              /\ Authentic(request[s])
              /\ body[s] = request[s].body
        /\ pc[s] = "parse" => isValidRequest[s] = "truthy"
        /\ Dispatched(s) =>
              /\ isValid[s] = "true"
              /\ isValidRequest[s] = "truthy"
              /\ parseCalls[s] = 1
              /\ Authentic(request[s])
        /\ isValidRequest[s] \in {"unset", "falsy"} =>
              parseCalls[s] = 0 /\ ~Dispatched(s) /\ interaction[s] = Undefined

\* a verified command has been parsed and dispatched
C1_Witness ==
    \E s \in Slots :
        /\ Done(s) /\ Dispatched(s) /\ parseCalls[s] = 1
        /\ isValidRequest[s] = "truthy"
        /\ evaluated[s] = <<"PING", "APPLICATION_COMMAND">>

(* C2.  Every POST / whose verification fails, whatever the cause (a       *)
(* header absent or empty, a malformed signature, another key, a body or   *)
(* timestamp altered after signing), is answered 401 with the text "Bad    *)
(* request signature.", the same for every cause, and never reaches the    *)
(* parser or the dispatcher.                                               *)
C2_OneFailureResponse ==
    \A s \in Slots :
        (Post(s) /\ Cause(request[s]) # "none") =>
            /\ parseCalls[s] = 0
            /\ ~Dispatched(s)
            /\ pc[s] # "parse"
            /\ thrown[s] = "none"
            /\ Done(s) => IsUnauthorized(response[s])

\* a request whose body was altered after signing has been answered 401
C2_Witness ==
    \E s \in Slots :
        /\ Done(s) /\ Post(s)
        /\ Cause(request[s]) = "altered after signing"
        /\ IsUnauthorized(response[s])

(* C3.  When the signature header or the timestamp header is absent or     *)
(* empty, verifyKey is never called, and verifyDiscordRequest returns      *)
(* isValid = false.                                                        *)
C3_NoKeyCheckWithoutHeaders ==
    \A s \in Slots :
        (Post(s) /\ (~Truthy(request[s].signature) \/ ~Truthy(request[s].timestamp))) =>
            /\ verifyKeyCalls[s] = 0
            /\ pc[s] \in {"text", "handler", "done"}
            /\ pc[s] \in {"handler", "done"} =>
                  isValidRequest[s] = "falsy" /\ isValid[s] = "false"

\* a request with a signature and no timestamp was refused without verifyKey
C3_Witness ==
    \E s \in Slots :
        /\ Done(s) /\ Post(s)
        /\ request[s].signature.key = DiscordKey
        /\ request[s].timestamp = Absent
        /\ verifyKeyCalls[s] = 0
        /\ isValid[s] = "false"

(* C5.  A verified PING (interaction.type = 1), whatever else it carries,  *)
(* is answered 200 with the JSON text {"type":1} and nothing else, and no  *)
(* test after the PING test is evaluated.                                  *)
C5_PingPong ==
    \A s \in Slots :
        (Done(s) /\ Verified(s) /\ Get(interaction[s], "type") = JNum(InteractionType_PING)) =>
            /\ response[s].status = 200
            /\ response[s].contentType = "application/json;charset=UTF-8"
            /\ response[s].body = PongText
            /\ evaluated[s] = <<"PING">>
            /\ thrown[s] = "none"
            /\ console[s] = <<>>

\* a PING that carries an id and data has been answered
C5_Witness ==
    \E s \in Slots :
        /\ Done(s) /\ Verified(s)
        /\ Get(interaction[s], "type") = JNum(InteractionType_PING)
        /\ Get(interaction[s], "data") # Undefined
        /\ response[s].body = PongText

(* C9.  Routing is total and exclusive.  GET / is answered 200 with a text *)
(* that holds the configured application id, without verification; every  *)
(* other method or path but POST / is answered 404 "Not Found.", without   *)
(* verification or dispatch; a POST / is answered only after the verifier  *)
(* has run, and dispatched only after it.                                  *)
C9_Routing ==
    \A s \in Slots :
        pc[s] # "idle" =>
            LET r       == request[s]
                untried == /\ isValidRequest[s] = "unset" /\ verifyKeyCalls[s] = 0
                           /\ parseCalls[s] = 0 /\ ~Dispatched(s) /\ isValid[s] = "unset"
            IN  IF r.method = "GET" /\ r.path = "/"
                THEN /\ Done(s) /\ untried
                     /\ response[s].status = 200
                     /\ response[s].contentType = "text/plain;charset=UTF-8"
                     /\ Contains(response[s].body, env.DISCORD_APPLICATION_ID)
                ELSE IF r.method = "POST" /\ r.path = "/"
                THEN /\ pc[s] \in {"parse", "handler", "done"} => isValidRequest[s] # "unset"
                     /\ Dispatched(s) => isValidRequest[s] = "truthy"
                     /\ Done(s) => response[s].status # 404
                ELSE /\ Done(s) /\ untried
                     /\ response[s].status = 404
                     /\ response[s].contentType = "text/plain;charset=UTF-8"
                     /\ response[s].body = <<"Not Found.">>

\* a signed GET of another path has been answered 404
C9_Witness ==
    \E s \in Slots :
        /\ Done(s)
        /\ request[s].method = "GET" /\ request[s].path = "/x"
        /\ Authentic(request[s])
        /\ response[s].status = 404

----------------------------------------------------------------------------
\* the response body read back as JSON
Answer(resp) == JSON_parse(resp.body).val

\* the response is 200 with an interaction-response object of this type
IsInteractionResponse(resp, type) ==
    /\ resp.status = 200
    /\ resp.contentType = "application/json;charset=UTF-8"
    /\ JSON_parse(resp.body).ok
    /\ Answer(resp).k = "object"
    /\ Get(Answer(resp), "type") = JNum(type)

(* C4.  Every POST / ends with one response of three kinds: 401 text when  *)
(* verification fails, 400 {"error":"Unknown Type"} for a verified request *)
(* of unknown type or command, 200 with a JSON interaction response in     *)
(* every other case; a verified request is never answered 401, never ends  *)
(* in an exception and gets no other status, whatever its body.            *)
C4_ThreeKinds ==
    \A s \in Slots :
        (Done(s) /\ Post(s)) =>
            /\ thrown[s] = "none"
            /\ ~Authentic(request[s]) => IsUnauthorized(response[s])
            /\ Authentic(request[s]) =>
                  \/ IsUnknownType(response[s])
                  \/ \E type \in {InteractionResponseType_PONG,
                                  InteractionResponseType_CHANNEL_MESSAGE_WITH_SOURCE,
                                  InteractionResponseType_MODAL} :
                        IsInteractionResponse(response[s], type)

CommandNamed(name) ==
    JObj(<<P("type", JNum(InteractionType_APPLICATION_COMMAND)),
           P("data", JObj(<<P("name", JStr(name))>>))>>)

\* slot s has answered a verified APPLICATION_COMMAND whose name is a string
NamedCommand(s) ==
    /\ Done(s) /\ Verified(s) /\ Truthy(interaction[s])
    /\ Get(interaction[s], "type") = JNum(InteractionType_APPLICATION_COMMAND)
    /\ CanRead(Get(interaction[s], "data"))
    /\ Get(Get(interaction[s], "data"), "name").k = "string"

NameOf(s) == Get(Get(interaction[s], "data"), "name").s

(* C6.  Command names are looked up without regard to letter case: any two *)
(* names that are equal once lower-cased get the same response, so every   *)
(* casing of aww or invite gets the response of the canonical name, and a  *)
(* name that is neither, in any casing, gets the unknown-command response. *)
C6_CaseInsensitive ==
    \A s \in Slots :
        NamedCommand(s) =>
            LET low == toLowerCase(NameOf(s)) IN
            /\ thrown[s] = "none"
            /\ \A other \in Names :
                  toLowerCase(other) = low =>
                      CommandResult(CommandNamed(other), env).response = response[s]
            /\ low = <<"a", "w", "w">> =>
                  /\ response[s] = CommandResult(CommandNamed(AWW_COMMAND_name), env).response
                  /\ IsInteractionResponse(response[s],
                                           InteractionResponseType_CHANNEL_MESSAGE_WITH_SOURCE)
                  /\ Len(Get(Get(Answer(response[s]), "data"), "embeds").m) = 3
            /\ low = <<"i", "n", "v", "i", "t", "e">> =>
                  /\ response[s] = CommandResult(CommandNamed(INVITE_COMMAND_name), env).response
                  /\ IsInteractionResponse(response[s],
                                           InteractionResponseType_CHANNEL_MESSAGE_WITH_SOURCE)
                  /\ Contains(Get(Get(Answer(response[s]), "data"), "content").s,
                              <<"client_id=">> \o env.DISCORD_APPLICATION_ID)
            /\ low \notin {<<"a", "w", "w">>, <<"i", "n", "v", "i", "t", "e">>} =>
                  IsUnknownType(response[s])

\* the command AwW has been answered as aww is
C6_Witness ==
    \E s \in Slots :
        /\ NamedCommand(s)
        /\ NameOf(s) = <<"A", "w", "W">>
        /\ response[s] = JsonResponse(AwwBody, NoInit)

MatchesEntry(act) ==
    /\ CanRead(Get(act, "data"))
    /\ Get(Get(act, "data"), "name").k = "string"
    /\ toLowerCase(Get(Get(act, "data"), "name").s)
          \in {toLowerCase(AWW_COMMAND_name), toLowerCase(INVITE_COMMAND_name)}

KnownTypes ==
    {JNum(InteractionType_PING), JNum(InteractionType_APPLICATION_COMMAND),
     JNum(InteractionType_MESSAGE_COMPONENT), JNum(InteractionType_MODAL_SUBMIT)}

(* C7.  A verified APPLICATION_COMMAND whose name matches no entry of the  *)
(* command table, and a verified interaction whose type is none of the     *)
(* four, are answered 400 {"error":"Unknown Type"}; the unknown type is    *)
(* also logged, the unknown command is not.                                *)
C7_UnknownIs400 ==
    \A s \in Slots :
        (Done(s) /\ Verified(s) /\ Truthy(interaction[s])) =>
            LET act == interaction[s] IN
            /\ (Get(act, "type") = JNum(InteractionType_APPLICATION_COMMAND)
                /\ ~MatchesEntry(act)) =>
                  IsUnknownType(response[s]) /\ console[s] = <<>>
            /\ Get(act, "type") \notin KnownTypes =>
                  IsUnknownType(response[s]) /\ console[s] = <<"Unknown Type">>

\* C7 for the commands whose data.name is a string: this much holds
C7_NamedOnly ==
    \A s \in Slots :
        (Done(s) /\ Verified(s) /\ Truthy(interaction[s])) =>
            LET act == interaction[s] IN
            /\ (NamedCommand(s) /\ ~MatchesEntry(act)) =>
                  IsUnknownType(response[s]) /\ console[s] = <<>>
            /\ Get(act, "type") \notin KnownTypes =>
                  IsUnknownType(response[s]) /\ console[s] = <<"Unknown Type">>

IsPromptModal(resp) ==
    /\ IsInteractionResponse(resp, InteractionResponseType_MODAL)
    /\ LET rows == Get(Get(Answer(resp), "data"), "components") IN
       /\ rows.k = "array" /\ Len(rows.m) = 1
       /\ Get(rows.m[1].val, "type") = JNum(MessageComponentTypes_ACTION_ROW)
       /\ LET inputs == Get(rows.m[1].val, "components") IN
          /\ inputs.k = "array" /\ Len(inputs.m) = 1
          /\ Get(inputs.m[1].val, "type") = JNum(MessageComponentTypes_INPUT_TEXT)
          /\ Get(inputs.m[1].val, "style") = JNum(TextStyleTypes_SHORT)
          /\ Get(inputs.m[1].val, "custom_id") = Lit("prompt")

IsEcho(resp, data) ==
    /\ IsInteractionResponse(resp, InteractionResponseType_CHANNEL_MESSAGE_WITH_SOURCE)
    /\ data # Undefined
    /\ Get(Get(Answer(resp), "data"), "content") = JStr(Serialize(data))

CustomIdOf(act) ==
    IF CanRead(Get(act, "data")) THEN Get(Get(act, "data"), "custom_id") ELSE Undefined

(* C8.  A verified MESSAGE_COMPONENT is answered 200: with a MODAL of one  *)
(* action row holding one short text input named prompt when               *)
(* data.custom_id is exactly "refine", and otherwise with a                *)
(* CHANNEL_MESSAGE_WITH_SOURCE whose content is the JSON text of the       *)
(* interaction.data received; it is never answered 400.                    *)
C8_Component ==
    \A s \in Slots :
        (Done(s) /\ Verified(s) /\ Truthy(interaction[s])
         /\ Get(interaction[s], "type") = JNum(InteractionType_MESSAGE_COMPONENT)) =>
            /\ IF CustomIdOf(interaction[s]) = JStr(REFINE)
               THEN IsPromptModal(response[s])
               ELSE IsEcho(response[s], Get(interaction[s], "data"))
            /\ ~IsUnknownType(response[s])

\* C8 for the components whose data is neither absent nor null: this much holds
C8_WithData ==
    \A s \in Slots :
        (Done(s) /\ Verified(s) /\ Truthy(interaction[s])
         /\ Get(interaction[s], "type") = JNum(InteractionType_MESSAGE_COMPONENT)) =>
            /\ CanRead(Get(interaction[s], "data")) =>
                  IF CustomIdOf(interaction[s]) = JStr(REFINE)
                  THEN IsPromptModal(response[s])
                  ELSE IsEcho(response[s], Get(interaction[s], "data"))
            /\ ~IsUnknownType(response[s])

----------------------------------------------------------------------------
\* the response to a request r handled alone, with configuration e
HandledAlone(r, e) ==
    IF r.method = "GET" /\ r.path = "/" THEN Hello(e.DISCORD_APPLICATION_ID)
    ELSE IF ~(r.method = "POST" /\ r.path = "/") THEN NotFound
    ELSE IF ~Authentic(r) THEN BadSignature
    ELSE LET parsed == JSON_parse(r.body)
             act    == parsed.val
         IN  IF ~parsed.ok THEN ErrorResponse("SyntaxError")
             ELSE IF ~Truthy(act) THEN BadSignature
             ELSE IF TypeIs(act, InteractionType_PING)
                  THEN JsonResponse(PongBody, NoInit)
             ELSE IF TypeIs(act, InteractionType_APPLICATION_COMMAND)
                  THEN CommandResult(act, e).response
             ELSE IF TypeIs(act, InteractionType_MESSAGE_COMPONENT)
                  THEN ComponentResult(act).response
             ELSE IF TypeIs(act, InteractionType_MODAL_SUBMIT)
                  THEN ModalSubmitResult(act).response
             ELSE JsonResponse(UnknownTypeBody, StatusInit(400))

\* all that the invocation in slot s holds
Invocation(s) ==
    <<pc[s], request[s], signature[s], timestamp[s], body[s], isValidRequest[s],
      verifyKeyCalls[s], parseCalls[s], isValid[s], interaction[s], evaluated[s],
      console[s], thrown[s], response[s]>>

\* a step is one invocation's: it leaves the configuration and every other
\* invocation as they were
OwnStep ==
    /\ env' = env
    /\ \E s \in Slots : \A t \in Slots \ {s} : Invocation(t)' = Invocation(t)

\* while an invocation is in flight its request is not replaced
RequestKept == \A s \in Slots : pc[s] # "idle" /\ pc'[s] # "idle" => request'[s] = request[s]

(* C10.  Handling is stateless.  With several requests in flight and their *)
(* steps interleaved in any order, after any earlier requests, each        *)
(* request gets the response it would get alone, a function of the request *)
(* and the configuration; no step changes the configuration or anything    *)
(* that belongs to another invocation.                                     *)
C10_Stateless ==
    /\ [](\A s \in Slots : Done(s) => response[s] = HandledAlone(request[s], Environment))
    /\ [][OwnStep /\ RequestKept]_vars

\* two requests are in flight at once, one answered and one not, and the
\* answered one got a response other than the one its neighbour will get
C10_Witness ==
    \E s, t \in Slots :
        /\ s # t
        /\ Done(s) /\ Post(s) /\ Dispatched(s)
        /\ pc[t] = "handler" /\ Post(t)
        /\ request[s] # request[t]
        /\ HandledAlone(request[t], Environment) # response[s]

====
